---- MODULE Spec2Model ----
(***************************************************************************)
(* MP3StreamParser::ParseFrameHeader of                                    *)
(* media/formats/mpeg/mp3_stream_parser.cc as a state machine: one call,   *)
(* from its entry with the arguments bound, block by block to its return.  *)
(***************************************************************************)
EXTENDS Integers, Sequences, FiniteSets

\* ------------------------------------------------------------------ bounds

\* Largest buffer length handed to one call (the header takes 4 bytes).
MaxSize == 5

\* ------------------------------------------------------------------ tables

\* kIsAllowed[17][4]: 16 initialised rows, the 17th zero-initialised (false).
kIsAllowed ==
  << <<TRUE, TRUE, TRUE, TRUE>>,
     <<TRUE, FALSE, FALSE, FALSE>>,
     <<TRUE, FALSE, FALSE, FALSE>>,
     <<TRUE, FALSE, FALSE, FALSE>>,
     <<TRUE, TRUE, TRUE, TRUE>>,
     <<TRUE, FALSE, FALSE, FALSE>>,
     <<TRUE, TRUE, TRUE, TRUE>>,
     <<TRUE, TRUE, TRUE, TRUE>>,
     <<TRUE, TRUE, TRUE, TRUE>>,
     <<TRUE, TRUE, TRUE, TRUE>>,
     <<TRUE, TRUE, TRUE, TRUE>>,
     <<FALSE, TRUE, TRUE, TRUE>>,
     <<FALSE, TRUE, TRUE, TRUE>>,
     <<FALSE, TRUE, TRUE, TRUE>>,
     <<FALSE, TRUE, TRUE, TRUE>>,
     <<FALSE, FALSE, FALSE, FALSE>>,
     <<FALSE, FALSE, FALSE, FALSE>> >>

\* kVersionLayerMap[4][4]: rows by version, columns { reserved, L3, L2, L1 }.
kVersionLayerMap ==
  << <<5, 4, 4, 3>>,
     <<5, 5, 5, 5>>,
     <<5, 4, 4, 3>>,
     <<5, 2, 1, 0>> >>

\* kBitrateMap[16][6]: columns { V1L1, V1L2, V1L3, V2L1, V2L2 & V2L3,
\* reserved }; the last row has five initialisers, the sixth entry is
\* zero-initialised.
kBitrateMap ==
  << <<0, 0, 0, 0, 0, 0>>,
     <<32, 32, 32, 32, 8, 0>>,
     <<64, 48, 40, 48, 16, 0>>,
     <<96, 56, 48, 56, 24, 0>>,
     <<128, 64, 56, 64, 32, 0>>,
     <<160, 80, 64, 80, 40, 0>>,
     <<192, 96, 80, 96, 48, 0>>,
     <<224, 112, 96, 112, 56, 0>>,
     <<256, 128, 112, 128, 64, 0>>,
     <<288, 160, 128, 144, 80, 0>>,
     <<320, 192, 160, 160, 96, 0>>,
     <<352, 224, 192, 176, 112, 0>>,
     <<384, 256, 224, 192, 128, 0>>,
     <<416, 320, 256, 224, 144, 0>>,
     <<448, 384, 320, 256, 160, 0>>,
     <<0, 0, 0, 0, 0, 0>> >>

\* kSampleRateMap[4][4]: columns { V2.5, reserved, V2, V1 }.
kSampleRateMap ==
  << <<11025, 0, 22050, 44100>>,
     <<12000, 0, 24000, 48000>>,
     <<8000, 0, 16000, 32000>>,
     <<0, 0, 0, 0>> >>

\* Frame header field constants.
kVersion2 == 2
kVersionReserved == 1
kVersion2_5 == 0
kLayerReserved == 0
kLayer1 == 3
kLayer2 == 2
kLayer3 == 1
kBitrateFree == 0
kBitrateBad == 15
kSampleRateReserved == 3

\* The sync pattern the header is compared with (0x7ff).
kSyncPattern == 2047

\* ------------------------------------------------------------- C++ values

\* The value of a local that has not been assigned yet.
Uninit == 0 - 1

\* ret before the function has returned.
NotReturned == 0 - 2

\* INT_MAX of a C++ int (two's complement, 32 bits).
IntMax == (2 ^ 30 - 1) * 2 + 1

Abs(x) == IF x < 0 THEN 0 - x ELSE x

\* x * y is representable in an int (otherwise the multiplication is
\* undefined behaviour).
MulFits(x, y) == x = 0 \/ Abs(y) <= IntMax \div Abs(x)

\* x + y is representable in an int, for y >= 0.
AddFits(x, y) == x <= IntMax - y

\* What an undefined int computation may leave behind.
UndefinedInts == {0 - IntMax, 0, IntMax}

\* acc op[1] op[2] ..., one C++ operation after the other, each op a pair
\* <<"*", x>> or <<"/", x>>: the values computed up to the first operation
\* that is undefined (an overflow, a division by zero), and whether all were
\* defined. The operands are non-negative, so the truncating division is \div.
RECURSIVE EvalChain(_, _, _, _)
EvalChain(acc, ops, k, steps) ==
  IF k > Len(ops) THEN [ok |-> TRUE, steps |-> steps]
  ELSE LET x == ops[k][2]
       IN  IF ops[k][1] = "*"
             THEN IF MulFits(acc, x)
                    THEN EvalChain(acc * x, ops, k + 1, Append(steps, acc * x))
                    ELSE [ok |-> FALSE, steps |-> steps]
             ELSE IF x # 0
                    THEN EvalChain(acc \div x, ops, k + 1,
                                   Append(steps, acc \div x))
                    ELSE [ok |-> FALSE, steps |-> steps]

\* A two-dimensional array read t[i][j] (0-based); ok is false out of bounds.
ArrayAt(t, i, j) ==
  IF i >= 0 /\ i < Len(t) /\ j >= 0 /\ j < Len(t[1])
    THEN [ok |-> TRUE, val |-> t[i + 1][j + 1]]
    ELSE [ok |-> FALSE, val |-> IF t[1][1] \in BOOLEAN THEN FALSE ELSE 0]

\* An out-parameter: ptr (non-null), written, val.
OutParam(given, initial) == [ptr |-> given, written |-> FALSE, val |-> initial]

Store(p, v) == [p EXCEPT !.written = TRUE, !.val = v]

\* -------------------------------------------------------------- BitReader

\* Bit i (0-based, most significant bit of byte 0 first) of buffer d.
BitAt(d, i) == (d[(i \div 8) + 1] \div (2 ^ (7 - (i % 8)))) % 2

\* The n bits of d from bit position pos, most significant first.
RECURSIVE BitsValue(_, _, _)
BitsValue(d, pos, n) ==
  IF n = 0 THEN 0
  ELSE 2 * BitsValue(d, pos, n - 1) + BitAt(d, pos + n - 1)

\* BitReader::ReadBits(num_bits, out): fails, reading nothing, when fewer
\* than num_bits bits are left in the nbytes bytes of the buffer.
ReadBits(d, nbytes, pos, n) ==
  IF pos + n <= 8 * nbytes
    THEN [ok |-> TRUE, val |-> BitsValue(d, pos, n), pos |-> pos + n]
    ELSE [ok |-> FALSE, val |-> Uninit, pos |-> pos]

\* Widths of the header's fields in the order ParseFrameHeader reads them:
\* sync, version, layer, is_protected, bitrate_index, sample_rate_index,
\* has_padding, is_private, channel_mode, other_flags.
FieldWidths == <<11, 2, 2, 1, 4, 2, 1, 1, 2, 6>>

\* The chain of ReadBits calls joined by ||: the values read up to the first
\* failing call (short-circuit), from field k on.
RECURSIVE ReadFields(_, _, _, _, _)
ReadFields(d, nbytes, pos, k, vals) ==
  IF k > Len(FieldWidths) THEN vals
  ELSE LET r == ReadBits(d, nbytes, pos, FieldWidths[k])
       IN  IF r.ok THEN ReadFields(d, nbytes, r.pos, k + 1, Append(vals, r.val))
           ELSE vals

\* The reader's position after the first k fields.
RECURSIVE BitsOfFields(_)
BitsOfFields(k) == IF k = 0 THEN 0 ELSE FieldWidths[k] + BitsOfFields(k - 1)

\* ------------------------------------------------------------------ state

VARIABLES
  pc,                \* the block of ParseFrameHeader about to run
  data, size,        \* the buffer and its length
  frame_size, sample_rate, channel_layout, sample_count,   \* out-parameters
  reader_pos,        \* bits consumed by the BitReader
  sync, version, layer, is_protected, bitrate_index, sample_rate_index,
  has_padding, is_private, channel_mode, other_flags,
  bitrate, frame_sample_rate, samples_per_frame,
  ret,               \* the value returned
  return_line,       \* the source line of the return statement taken, 0 if none
  lookups_ok,        \* every array read so far was inside its array
  column,            \* the kVersionLayerMap value used as bitrate column
  arith,             \* the exact values of the frame-size arithmetic so far
  ub,                \* an int overflow or a division by zero has happened
  null_write         \* a write through a null out-parameter has happened

outs == <<frame_size, sample_rate, channel_layout, sample_count>>
fields == <<sync, version, layer, is_protected, bitrate_index,
            sample_rate_index, has_padding, is_private, channel_mode,
            other_flags>>
derived == <<bitrate, frame_sample_rate, samples_per_frame>>
args == <<data, size>>
trace == <<lookups_ok, column, arith, ub, null_write>>
vars == <<pc, args, outs, reader_pos, fields, derived, ret, return_line, trace>>

\* ----------------------------------------------------------------- inputs

\* The four bytes of a header with the given field values.
HeaderBytes(f) ==
  << f.sync \div 8,
     (f.sync % 8) * 32 + f.version * 8 + f.layer * 2 + f.is_protected,
     f.bitrate_index * 16 + f.sample_rate_index * 4 + f.has_padding * 2
       + f.is_private,
     f.channel_mode * 64 + f.other_flags >>

\* n bytes of trailing data after a header.
RECURSIVE Trailing(_)
Trailing(n) == IF n <= 0 THEN << >> ELSE <<170>> \o Trailing(n - 1)

\* Values of the sync field: the pattern, and patterns one bit away from it.
SyncValues == {2047, 2046, 1023}

\* Values of the fields that are only informational:
\* <<is_protected, is_private, other_flags>>.
InfoBits == { <<1, 0, 0>>, <<0, 1, 63>>, <<1, 1, 21>> }

\* Every header: all values of every validated field.
AllHeaders ==
  { HeaderBytes([sync |-> s, version |-> v, layer |-> l, is_protected |-> i[1],
                 bitrate_index |-> b, sample_rate_index |-> r, has_padding |-> p,
                 is_private |-> i[2], channel_mode |-> c, other_flags |-> i[3]]) :
      s \in SyncValues, v \in 0..3, l \in 0..3, i \in InfoBits, b \in 0..15,
      r \in 0..3, p \in 0..1, c \in 0..3 }

\* Headers for the calls that omit outputs: every version, layer, padding and
\* channel mode, with a free, a low, a middle, a high and a bad bitrate index.
SomeHeaders ==
  { HeaderBytes([sync |-> 2047, version |-> v, layer |-> l, is_protected |-> 1,
                 bitrate_index |-> b, sample_rate_index |-> r, has_padding |-> p,
                 is_private |-> 0, channel_mode |-> c, other_flags |-> 0]) :
      v \in 0..3, l \in 0..3, b \in {0, 1, 9, 14, 15}, r \in {0, 3},
      p \in 0..1, c \in 0..3 }

\* Byte values of a buffer too short to hold a header.
ShortBytes == {0, 144, 251, 255}

ShortBuffers == UNION { [1..n -> ShortBytes] : n \in 0..3 }

\* The state at the entry of a call with buffer d and the out-parameters
\* given (non-null) as told.
Entered(d, fs, sr, cl, sc) ==
  /\ pc = "entry"
  /\ data = d /\ size = Len(d)
  /\ frame_size = OutParam(fs, 0)
  /\ sample_rate = OutParam(sr, 0)
  /\ channel_layout = OutParam(cl, "CHANNEL_LAYOUT_NONE")
  /\ sample_count = OutParam(sc, 0)
  /\ reader_pos = 0
  /\ sync = Uninit /\ version = Uninit /\ layer = Uninit
  /\ is_protected = Uninit /\ bitrate_index = Uninit
  /\ sample_rate_index = Uninit /\ has_padding = Uninit
  /\ is_private = Uninit /\ channel_mode = Uninit /\ other_flags = Uninit
  /\ bitrate = Uninit /\ frame_sample_rate = Uninit
  /\ samples_per_frame = Uninit
  /\ ret = NotReturned /\ return_line = 0
  /\ lookups_ok = TRUE /\ column = Uninit /\ arith = << >> /\ ub = FALSE
  /\ null_write = FALSE

Init ==
  \/ \E d \in ShortBuffers, fs \in BOOLEAN, sr \in BOOLEAN, cl \in BOOLEAN,
        sc \in BOOLEAN : Entered(d, fs, sr, cl, sc)
  \/ \E h \in AllHeaders : Entered(h, TRUE, TRUE, TRUE, TRUE)
  \/ \E h \in SomeHeaders, n \in 4..MaxSize, fs \in BOOLEAN, sr \in BOOLEAN,
        cl \in BOOLEAN, sc \in BOOLEAN :
        Entered(h \o Trailing(n - 4), fs, sr, cl, sc)

\* ------------------------------------------------------ ParseFrameHeader

\* return v; at source line ln.
Return(v, ln) == pc' = "done" /\ ret' = v /\ return_line' = ln

\* Entry with the length test one byte short: if (size < 3).
Entry_ShortByOne ==
  /\ pc = "entry"
  /\ \/ /\ ~frame_size.ptr
        /\ pc' = "aborted"
        /\ UNCHANGED <<ret, return_line>>
     \/ IF size < 3
          THEN Return(0, 106)
          ELSE pc' = "read" /\ UNCHANGED <<ret, return_line>>
  /\ UNCHANGED <<args, outs, reader_pos, fields, derived, trace>>

\* Lines 101-106. DCHECK(data) and DCHECK_GE(size, 0) hold of every call
\* made here. DCHECK(frame_size) with a null frame_size ends the process in a
\* build with DCHECKs on and is compiled out otherwise.
Entry ==
  /\ pc = "entry"
  /\ \/ /\ ~frame_size.ptr
        /\ pc' = "aborted"
        /\ UNCHANGED <<ret, return_line>>
     \/ IF size < 4
          THEN Return(0, 106)
          ELSE pc' = "read" /\ UNCHANGED <<ret, return_line>>
  /\ UNCHANGED <<args, outs, reader_pos, fields, derived, trace>>

\* Lines 108-131: the ten ReadBits calls.
ReadHeader ==
  /\ pc = "read"
  /\ \E vals \in {ReadFields(data, size, 0, 1, << >>)} :
     LET Got(k) == IF k <= Len(vals) THEN vals[k] ELSE Uninit
     IN  /\ sync' = Got(1)
         /\ version' = Got(2)
         /\ layer' = Got(3)
         /\ is_protected' = Got(4)
         /\ bitrate_index' = Got(5)
         /\ sample_rate_index' = Got(6)
         /\ has_padding' = Got(7)
         /\ is_private' = Got(8)
         /\ channel_mode' = Got(9)
         /\ other_flags' = Got(10)
         /\ reader_pos' = BitsOfFields(Len(vals))
         /\ IF Len(vals) < Len(FieldWidths)
              THEN Return(0 - 1, 130)
              ELSE pc' = "validate" /\ UNCHANGED <<ret, return_line>>
  /\ UNCHANGED <<args, outs, derived, trace>>

\* IsInvalidHeader comparing only the first byte of the sync pattern.
IsInvalidHeader_SyncFirstByte(sy, ve, la, bi, sri) ==
  \/ (sy \div 8) # 255
  \/ ve = kVersionReserved
  \/ la = kLayerReserved
  \/ bi = kBitrateFree
  \/ bi = kBitrateBad
  \/ sri = kSampleRateReserved

\* IsInvalidHeader without the test of the reserved version.
IsInvalidHeader_NoVersionTest(sy, ve, la, bi, sri) ==
  \/ sy # kSyncPattern
  \/ la = kLayerReserved
  \/ bi = kBitrateFree
  \/ bi = kBitrateBad
  \/ sri = kSampleRateReserved

\* The condition of the if at lines 141-145.
IsInvalidHeader(sy, ve, la, bi, sri) ==
  \/ sy # kSyncPattern
  \/ ve = kVersionReserved
  \/ la = kLayerReserved
  \/ bi = kBitrateFree
  \/ bi = kBitrateBad
  \/ sri = kSampleRateReserved

\* Lines 141-154.
Validate ==
  /\ pc = "validate"
  /\ IF IsInvalidHeader(sync, version, layer, bitrate_index, sample_rate_index)
       THEN Return(0 - 1, 153)
       ELSE pc' = "layer2" /\ UNCHANGED <<ret, return_line>>
  /\ UNCHANGED <<args, outs, reader_pos, fields, derived, trace>>

\* The condition of the if at line 156; && reads the table only for Layer II.
RejectsLayer2(la, bi, cm) ==
  la = kLayer2 /\ ArrayAt(kIsAllowed, bi, cm).val

\* Lines 156-162.
CheckLayer2 ==
  /\ pc = "layer2"
  /\ lookups_ok' = (lookups_ok /\
                    (layer = kLayer2 =>
                       ArrayAt(kIsAllowed, bitrate_index, channel_mode).ok))
  /\ IF RejectsLayer2(layer, bitrate_index, channel_mode)
       THEN Return(0 - 1, 161)
       ELSE pc' = "bitrate" /\ UNCHANGED <<ret, return_line>>
  /\ UNCHANGED <<args, outs, reader_pos, fields, derived, column, arith, ub,
                 null_write>>

\* BitrateAt giving bits per second instead of kbps.
BitrateAt_BitsPerSecond(bi, col) == ArrayAt(kBitrateMap, bi, col).val * 1000

\* kBitrateMap[bi][col], in kbps.
BitrateAt(bi, col) == ArrayAt(kBitrateMap, bi, col).val

\* Lines 164-172.
ResolveBitrate ==
  /\ pc = "bitrate"
  /\ LET c == ArrayAt(kVersionLayerMap, version, layer)
     IN  /\ column' = c.val
         /\ bitrate' = BitrateAt(bitrate_index, c.val)
         /\ lookups_ok' = (lookups_ok /\ c.ok /\
                           ArrayAt(kBitrateMap, bitrate_index, c.val).ok)
  /\ IF bitrate' = 0
       THEN Return(0 - 1, 171)
       ELSE pc' = "sample_rate" /\ UNCHANGED <<ret, return_line>>
  /\ UNCHANGED <<args, outs, reader_pos, fields, frame_sample_rate,
                 samples_per_frame, arith, ub, null_write>>

\* ResolveSampleRate storing the index instead of the rate in *sample_rate.
ResolveSampleRate_StoresIndex ==
  /\ pc = "sample_rate"
  /\ LET r == ArrayAt(kSampleRateMap, sample_rate_index, version)
     IN  /\ frame_sample_rate' = r.val
         /\ lookups_ok' = (lookups_ok /\ r.ok)
  /\ IF frame_sample_rate' = 0
       THEN Return(0 - 1, 181) /\ UNCHANGED sample_rate
       ELSE /\ pc' = "samples_per_frame"
            /\ sample_rate' = IF sample_rate.ptr
                                THEN Store(sample_rate, sample_rate_index)
                                ELSE sample_rate
            /\ UNCHANGED <<ret, return_line>>
  /\ UNCHANGED <<args, frame_size, channel_layout, sample_count, reader_pos,
                 fields, bitrate, samples_per_frame, column, arith, ub,
                 null_write>>

\* Lines 176-185.
ResolveSampleRate ==
  /\ pc = "sample_rate"
  /\ LET r == ArrayAt(kSampleRateMap, sample_rate_index, version)
     IN  /\ frame_sample_rate' = r.val
         /\ lookups_ok' = (lookups_ok /\ r.ok)
  /\ IF frame_sample_rate' = 0
       THEN Return(0 - 1, 181) /\ UNCHANGED sample_rate
       ELSE /\ pc' = "samples_per_frame"
            /\ sample_rate' = IF sample_rate.ptr
                                THEN Store(sample_rate, frame_sample_rate')
                                ELSE sample_rate
            /\ UNCHANGED <<ret, return_line>>
  /\ UNCHANGED <<args, frame_size, channel_layout, sample_count, reader_pos,
                 fields, bitrate, samples_per_frame, column, arith, ub,
                 null_write>>

\* SamplesPerFrame without the MPEG2 and MPEG2.5 case of Layer III.
SamplesPerFrame_Layer3Always1152(la, ve) ==
  CASE la = kLayer1 -> 384
    [] la = kLayer2 -> 1152
    [] la = kLayer3 -> 1152
    [] OTHER -> 0

\* SamplesPerFrame without the case of Layer III, which falls to the default.
SamplesPerFrame_NoLayer3Case(la, ve) ==
  CASE la = kLayer1 -> 384
    [] la = kLayer2 -> 1152
    [] OTHER -> 0

\* The switch at lines 190-208; 0 stands for its default branch.
SamplesPerFrame(la, ve) ==
  CASE la = kLayer1 -> 384
    [] la = kLayer2 -> 1152
    [] la = kLayer3 -> IF ve = kVersion2 \/ ve = kVersion2_5 THEN 576 ELSE 1152
    [] OTHER -> 0

\* ResolveSampleCount without the null test of line 210.
ResolveSampleCount_NoNullTest ==
  /\ pc = "samples_per_frame"
  /\ LET spf == SamplesPerFrame(layer, version)
     IN  IF spf = 0
           THEN /\ Return(0 - 1, 207)
                /\ UNCHANGED <<samples_per_frame, sample_count>>
           ELSE /\ samples_per_frame' = spf
                /\ sample_count' = Store(sample_count, spf)
                /\ pc' = "frame_size"
                /\ UNCHANGED <<ret, return_line>>
  /\ UNCHANGED <<args, frame_size, sample_rate, channel_layout, reader_pos,
                 fields, bitrate, frame_sample_rate, trace>>

\* Lines 189-211.
ResolveSampleCount ==
  /\ pc = "samples_per_frame"
  /\ LET spf == SamplesPerFrame(layer, version)
     IN  IF spf = 0
           THEN /\ Return(0 - 1, 207)
                /\ UNCHANGED <<samples_per_frame, sample_count>>
           ELSE /\ samples_per_frame' = spf
                /\ sample_count' = IF sample_count.ptr
                                     THEN Store(sample_count, spf)
                                     ELSE sample_count
                /\ pc' = "frame_size"
                /\ UNCHANGED <<ret, return_line>>
  /\ UNCHANGED <<args, frame_size, sample_rate, channel_layout, reader_pos,
                 fields, bitrate, frame_sample_rate, trace>>

\* The frame-size expression of line 220 (Layer I) and of lines 222-223, as
\* the chain of int operations C++ evaluates.
FrameSizeArith(la, spf, br, rate) ==
  IF la = kLayer1
    THEN EvalChain(12, << <<"*", br>>, <<"*", 1000>>, <<"/", rate>>,
                          <<"*", 4>> >>, 1, << >>)
    ELSE EvalChain(spf, << <<"/", 8>>, <<"*", br>>, <<"*", 1000>>,
                           <<"/", rate>> >>, 1, << >>)

\* Lines 215-224: the write through frame_size. A signed overflow or a
\* division by zero is undefined and may leave any value; a null frame_size
\* makes the write undefined: the process faults, or the store has no effect
\* the caller can see.
ComputeFrameSize ==
  /\ pc = "frame_size"
  /\ LET r == FrameSizeArith(layer, samples_per_frame, bitrate,
                             frame_sample_rate)
     IN  /\ arith' = arith \o r.steps
         /\ \/ /\ frame_size.ptr
               /\ \E v \in (IF r.ok THEN {r.steps[Len(r.steps)]}
                                    ELSE UndefinedInts) :
                     frame_size' = Store(frame_size, v)
               /\ ub' = (ub \/ ~r.ok)
               /\ null_write' = null_write
               /\ pc' = "padding"
            \/ /\ ~frame_size.ptr
               /\ ub' = (ub \/ ~r.ok)
               /\ null_write' = TRUE
               /\ pc' = "crashed"
               /\ UNCHANGED frame_size
            \/ /\ ~frame_size.ptr
               /\ ub' = (ub \/ ~r.ok)
               /\ null_write' = TRUE
               /\ pc' = "padding"
               /\ UNCHANGED frame_size
  /\ UNCHANGED <<args, sample_rate, channel_layout, sample_count, reader_pos,
                 fields, derived, ret, return_line, lookups_ok, column>>

\* What line 227 adds to *frame_size.
PaddingBytes(la) == IF la = kLayer1 THEN 4 ELSE 1

\* Lines 226-227.
AddPadding ==
  /\ pc = "padding"
  /\ \/ /\ has_padding = 0 \/ frame_size.ptr
        /\ IF has_padding # 0
             THEN LET n == PaddingBytes(layer)
                      fits == AddFits(frame_size.val, n)
                  IN  /\ arith' = IF fits THEN Append(arith, frame_size.val + n)
                                          ELSE arith
                      /\ \E v \in (IF fits THEN {frame_size.val + n}
                                           ELSE UndefinedInts) :
                            frame_size' = Store(frame_size, v)
                      /\ ub' = (ub \/ ~fits)
             ELSE UNCHANGED <<arith, frame_size, ub>>
        /\ null_write' = null_write
        /\ pc' = "channel_layout"
     \/ /\ has_padding # 0 /\ ~frame_size.ptr
        /\ null_write' = TRUE
        /\ pc' = "crashed"
        /\ UNCHANGED <<arith, frame_size, ub>>
     \/ /\ has_padding # 0 /\ ~frame_size.ptr
        /\ null_write' = TRUE
        /\ pc' = "channel_layout"
        /\ UNCHANGED <<arith, frame_size, ub>>
  /\ UNCHANGED <<args, sample_rate, channel_layout, sample_count, reader_pos,
                 fields, derived, ret, return_line, lookups_ok, column>>

\* ChannelLayoutOf taking Dual Channel (2) for mono as well.
ChannelLayoutOf_DualIsMono(cm) ==
  IF cm >= 2 THEN "CHANNEL_LAYOUT_MONO" ELSE "CHANNEL_LAYOUT_STEREO"

\* The conditional expression of line 233.
ChannelLayoutOf(cm) ==
  IF cm = 3 THEN "CHANNEL_LAYOUT_MONO" ELSE "CHANNEL_LAYOUT_STEREO"

\* Lines 229-236.
SetChannelLayout ==
  /\ pc = "channel_layout"
  /\ channel_layout' = IF channel_layout.ptr
                         THEN Store(channel_layout, ChannelLayoutOf(channel_mode))
                         ELSE channel_layout
  /\ Return(4, 236)
  /\ UNCHANGED <<args, frame_size, sample_rate, sample_count, reader_pos,
                 fields, derived, trace>>

Next ==
  \/ Entry
  \/ ReadHeader
  \/ Validate
  \/ CheckLayer2
  \/ ResolveBitrate
  \/ ResolveSampleRate
  \/ ResolveSampleCount
  \/ ComputeFrameSize
  \/ AddPadding
  \/ SetChannelLayout

Spec == Init /\ [][Next]_vars

\* ------------------------------------------------------------ properties

\* The header's fields as the wire format lays them out in the first four
\* bytes of the buffer:
\* sync(11) | version(2) | layer(2) | protection(1) | bitrate_index(4) |
\* sample_rate_index(2) | padding(1) | private(1) | channel_mode(2) | flags(6).
WireSync == data[1] * 8 + (data[2] \div 32)
WireVersion == (data[2] \div 8) % 4
WireLayer == (data[2] \div 2) % 4
WireBitrateIndex == data[3] \div 16
WireSampleRateIndex == (data[3] \div 4) % 4
WirePadding == (data[3] \div 2) % 2
WireChannelMode == data[4] \div 64

\* The buffer holds a header with a bad sync or a reserved field value.
WireReserved ==
  \/ WireSync # 2047
  \/ WireVersion = 1
  \/ WireLayer = 0
  \/ WireBitrateIndex \in {0, 15}
  \/ WireSampleRateIndex = 3

\* The kIsAllowed entry of the header's (bitrate_index, channel_mode) pair.
WireAllowed == kIsAllowed[WireBitrateIndex + 1][WireChannelMode + 1]

Returned == pc = "done"

NothingWritten ==
  /\ ~frame_size.written /\ ~sample_rate.written
  /\ ~channel_layout.written /\ ~sample_count.written

\* C1: a call with a buffer of 0 to 3 bytes, whatever the bytes, returns 0
\* (never -1, never 4) without reading a header field; the only other way
\* such a call ends is the DCHECK on a null frame_size.
C1_InsufficientData ==
  size < 4 =>
    /\ pc \in {"entry", "done", "aborted"}
    /\ pc = "aborted" => ~frame_size.ptr
    /\ Returned => ret = 0
    /\ reader_pos = 0
    /\ \A k \in 1..Len(fields) : fields[k] = Uninit

C1_Witness ==
  Returned /\ data = <<255, 251, 144>> /\ ret = 0 /\ return_line = 106

\* C2: a header of a buffer of at least 4 bytes with sync # 0x7FF, version 1,
\* layer 0, bitrate_index 0 or 0xF, or sample_rate_index 3 is answered with
\* -1, whatever its other fields are.
C2_ReservedRejected ==
  (size >= 4 /\ WireReserved) =>
    /\ pc # "crashed"
    /\ Returned => ret = 0 - 1

C2_Witness ==
  /\ Returned /\ ret = 0 - 1
  /\ size >= 4 /\ WireSync = 2046 /\ WireVersion = 3 /\ WireLayer = 1
  /\ WireBitrateIndex = 9 /\ WireSampleRateIndex = 0 /\ WirePadding = 1
  /\ data[4] = 255

\* C3: a Layer II header that passes the sync and reserved-field checks is
\* answered with -1 when kIsAllowed marks its (bitrate_index, channel_mode)
\* pair false, and is not rejected by the Layer II check when it marks the
\* pair true.
C3_Layer2AllowedMatrix ==
  (Returned /\ size >= 4 /\ ~WireReserved /\ WireLayer = 2) =>
    IF WireAllowed THEN return_line # 161 ELSE ret = 0 - 1

\* A header is valid whichever way the Layer II matrix is read: its fields
\* are not reserved and it is not Layer II.
WireValidAnyReading == size >= 4 /\ ~WireReserved /\ WireLayer # 2

WrittenAsGiven ==
  /\ frame_size.written = frame_size.ptr
  /\ sample_rate.written = sample_rate.ptr
  /\ channel_layout.written = channel_layout.ptr
  /\ sample_count.written = sample_count.ptr

\* C4 as stated: any of the four out-parameters may be null; for a valid
\* header the call completes normally, returns 4 and writes exactly the
\* outputs given, without asserting on or writing through a null one.
C4_AnyOutputOmitted ==
  WireValidAnyReading =>
    /\ pc \notin {"aborted", "crashed"}
    /\ ~null_write
    /\ Returned => (ret = 4 /\ WrittenAsGiven)

\* C4 as the code has it: sample_rate, channel_layout and sample_count may
\* each be null, frame_size may not. With frame_size given, no call asserts
\* or writes through a null pointer, nothing is written to an output that
\* was not given, and a call on a header that passes the checks of lines 141
\* and 156 returns 4 having written exactly the outputs given.
C4_OptionalOutputs ==
  frame_size.ptr =>
    /\ pc \notin {"aborted", "crashed"}
    /\ ~null_write
    /\ sample_rate.written => sample_rate.ptr
    /\ channel_layout.written => channel_layout.ptr
    /\ sample_count.written => sample_count.ptr
    /\ (Returned /\ size >= 4 /\ ~WireReserved
          /\ ~(WireLayer = 2 /\ WireAllowed)) => (ret = 4 /\ WrittenAsGiven)

C4_Witness ==
  /\ Returned /\ ret = 4
  /\ frame_size.ptr /\ frame_size.written
  /\ ~sample_rate.ptr /\ ~channel_layout.ptr /\ ~sample_count.ptr
  /\ ~sample_rate.written /\ ~channel_layout.written /\ ~sample_count.written

\* The bitrate (kbps), sample rate (Hz) and samples per frame the tables give
\* the header in the buffer.
WireBitrate ==
  kBitrateMap[WireBitrateIndex + 1]
             [kVersionLayerMap[WireVersion + 1][WireLayer + 1] + 1]
WireSampleRate == kSampleRateMap[WireSampleRateIndex + 1][WireVersion + 1]
WireSamplesPerFrame ==
  IF WireLayer = 3 THEN 384
  ELSE IF WireLayer = 2 THEN 1152
  ELSE IF WireVersion = 3 THEN 1152 ELSE 576

\* The frame size the formulas give the header in the buffer.
WireFrameSize ==
  IF WireLayer = 3
    THEN 4 * ((12 * WireBitrate * 1000) \div WireSampleRate) + 4 * WirePadding
    ELSE (((WireSamplesPerFrame \div 8) * WireBitrate * 1000)
            \div WireSampleRate) + WirePadding

\* C5: for an accepted header the frame_size output is
\* 4*floor(12*bitrate*1000/rate), plus 4 with padding, for Layer I and
\* floor((samples_per_frame/8)*bitrate*1000/rate), plus 1 with padding, for
\* Layer II and III; FF FB 90 00 gives 417 bytes, 44100 Hz, 1152 samples,
\* Stereo and the return value 4, and FF FF 18 00 gives 48 bytes.
C5_FrameSize ==
  /\ (Returned /\ ret = 4 /\ frame_size.ptr) =>
        /\ frame_size.written
        /\ frame_size.val = WireFrameSize
  /\ (Returned /\ size >= 4 /\ SubSeq(data, 1, 4) = <<255, 251, 144, 0>>) =>
        /\ ret = 4
        /\ frame_size.ptr => frame_size.val = 417
        /\ sample_rate.ptr => sample_rate.val = 44100
        /\ sample_count.ptr => sample_count.val = 1152
        /\ channel_layout.ptr => channel_layout.val = "CHANNEL_LAYOUT_STEREO"
  /\ (Returned /\ size >= 4 /\ SubSeq(data, 1, 4) = <<255, 255, 24, 0>>) =>
        /\ ret = 4
        /\ frame_size.ptr => frame_size.val = 48

C5_Witness ==
  /\ Returned /\ ret = 4 /\ data = <<255, 251, 146, 0>>
  /\ frame_size.val = 418 /\ sample_rate.val = 44100
  /\ sample_count.val = 1152

\* The non-zero entries of kSampleRateMap.
SampleRates ==
  { kSampleRateMap[i][j] : i \in 1..4, j \in 1..4 } \ {0}

\* C6: the function returns -1, 0 or 4 and nothing else; when it returns 4
\* the frame_size output is at least 4, the sample_count output is 384, 576
\* or 1152 and the sample_rate output is a non-zero entry of kSampleRateMap.
C6_SuccessOutputs ==
  Returned =>
    /\ ret \in {0 - 1, 0, 4}
    /\ ret = 4 =>
         /\ frame_size.ptr => (frame_size.written /\ frame_size.val >= 4)
         /\ sample_count.ptr =>
              (sample_count.written /\ sample_count.val \in {384, 576, 1152})
         /\ sample_rate.ptr =>
              (sample_rate.written /\ sample_rate.val \in SampleRates)

C6_Witness ==
  /\ Returned /\ ret = 4 /\ size > 4
  /\ frame_size.written /\ frame_size.val >= 4
  /\ sample_count.written /\ sample_count.val = 576
  /\ sample_rate.written /\ sample_rate.val = 11025

\* C7: for an accepted header and a channel_layout output that is given, the
\* layout is Mono exactly when channel_mode is 3 and Stereo for channel_mode
\* 0, 1 and 2.
C7_ChannelLayout ==
  (Returned /\ ret = 4 /\ channel_layout.ptr) =>
    /\ channel_layout.written
    /\ channel_layout.val = "CHANNEL_LAYOUT_MONO" <=> WireChannelMode = 3
    /\ WireChannelMode \in {0, 1, 2} =>
         channel_layout.val = "CHANNEL_LAYOUT_STEREO"

C7_Witness ==
  /\ Returned /\ ret = 4 /\ WireChannelMode = 3 /\ WireLayer = 3
  /\ channel_layout.val = "CHANNEL_LAYOUT_MONO"

\* C8: every operation of the frame-size arithmetic is defined: no
\* multiplication or addition leaves the int range and the divisor is not 0,
\* so all four operations of the expression are carried out.
C8_NoOverflow ==
  /\ ~ub
  /\ \A k \in 1..Len(arith) : arith[k] >= 0 /\ arith[k] <= IntMax
  /\ pc = "frame_size" => frame_sample_rate # 0
  /\ pc \in {"padding", "channel_layout", "crashed"} => Len(arith) >= 4
  /\ (Returned /\ ret = 4) => Len(arith) = 4 + (IF frame_size.ptr
                                                   THEN WirePadding ELSE 0)

C8_Witness ==
  /\ Returned /\ ret = 4
  /\ \E k \in 1..Len(arith) : arith[k] = 55296000

C10_NoWriteOnFailure ==
  (Returned /\ ret \in {0, 0 - 1}) => NothingWritten

C10_Witness ==
  /\ Returned /\ ret = 0 - 1 /\ return_line = 161
  /\ sample_rate.ptr /\ sample_count.ptr /\ NothingWritten

====
